---- MODULE Spec2Model ----
(***************************************************************************)
(* ipd::Deque<T> (src/src/Deque.hxx): a double-ended queue represented as  *)
(* a doubly-linked list of heap nodes.                                     *)
(*                                                                         *)
(* The heap is the sequence `node`: node[n] is the n-th node_ object that  *)
(* `new node_` created.  The source contains no delete expression, so a    *)
(* node object, once created, exists for the rest of the run.  Pointers    *)
(* are node indices, nullptr is Null.  A Deque object d has the members    *)
(* head_[d], tail_[d], size_[d]; live[d] says that d has been constructed  *)
(* and not destroyed.  size_ is a size_t; it never exceeds the number of    *)
(* nodes on the heap, so its 64-bit wrap-around is out of reach.           *)
(***************************************************************************)
EXTENDS Integers, Sequences, FiniteSets, TLC

\* Bounds of the model.
NumDeques == 2    \* Deque objects the client holds
MaxNodes == 4     \* node_ objects the heap can hold
MaxVal == 2       \* element values are 1..MaxVal
MaxLen == 3       \* longest initializer list

Null == 0
Deques == 1..NumDeques
Values == 1..MaxVal

VARIABLES
    node,     \* heap: sequence of node_ records [val, prev, next]
    head_,    \* head_[d]
    tail_,    \* tail_[d]
    size_,    \* size_[d]
    live,     \* live[d]: d is constructed and not destroyed
    pc,       \* "idle", or "splice" while a splice call is inside its loop
    copyOf,   \* history: copyOf[d] = the deque d was last copied from, or Null
    last      \* history: what the properties need to know of the calls made
              \* (Spec, SpliceSpec: the splice call in progress or just returned)

vars == <<node, head_, tail_, size_, live, pc, copyOf, last>>

(***************************************************************************)
(* The members of all deques plus the heap, as one value the member        *)
(* functions transform.                                                    *)
(***************************************************************************)
Store == [node |-> node, head_ |-> head_, tail_ |-> tail_, size_ |-> size_]

\* node_::node_(args...): val from the argument, both links nullptr.
node_(value) == [val |-> value, prev |-> Null, next |-> Null]

\* The nodes met following next from n, at most fuel of them.
RECURSIVE Chain(_, _, _)
Chain(s, n, fuel) ==
    IF n = Null \/ fuel = 0
    THEN <<>>
    ELSE <<n>> \o Chain(s, s.node[n].next, fuel - 1)

\* Deque<T>::Deque()
Deque(s, d) ==
    [s EXCEPT !.head_[d] = Null, !.tail_[d] = Null, !.size_[d] = 0]

\* Deque<T>::empty()
empty(s, d) == s.size_[d] = 0

\* Deque<T>::size()
size(s, d) == s.size_[d]

\* Mutant of front: the value is read at the tail end.
front_attail(s, d) == s.node[s.tail_[d]].val

\* Deque<T>::front(): head_->val
front(s, d) == s.node[s.head_[d]].val

\* Deque<T>::back(): tail_->val
back(s, d) == s.node[s.tail_[d]].val

\* Mutant of push_front: the new node is linked at the tail end.
push_front_attail(s, d, value) ==
    LET newNode == Len(s.node) + 1
        heap == Append(s.node, node_(value))
    IN  IF empty(s, d)
        THEN [s EXCEPT !.node = heap,
                       !.head_[d] = newNode,
                       !.tail_[d] = newNode,
                       !.size_[d] = @ + 1]
        ELSE [s EXCEPT !.node = [heap EXCEPT ![s.tail_[d]].next = newNode,
                                             ![newNode].prev = s.tail_[d]],
                       !.tail_[d] = newNode,
                       !.size_[d] = @ + 1]

\* Deque<T>::push_front
push_front(s, d, value) ==
    LET newNode == Len(s.node) + 1
        heap == Append(s.node, node_(value))
    IN  IF empty(s, d)
        THEN [s EXCEPT !.node = heap,
                       !.head_[d] = newNode,
                       !.tail_[d] = newNode,
                       !.size_[d] = @ + 1]
        ELSE [s EXCEPT !.node = [heap EXCEPT ![s.head_[d]].prev = newNode,
                                             ![newNode].next = s.head_[d]],
                       !.head_[d] = newNode,
                       !.size_[d] = @ + 1]

\* Mutant of push_back: the new node is linked forward but its prev is left nullptr.
push_back_noprev(s, d, value) ==
    LET newNode == Len(s.node) + 1
        heap == Append(s.node, node_(value))
    IN  IF empty(s, d)
        THEN [s EXCEPT !.node = heap,
                       !.head_[d] = newNode,
                       !.tail_[d] = newNode,
                       !.size_[d] = @ + 1]
        ELSE [s EXCEPT !.node = [heap EXCEPT ![s.tail_[d]].next = newNode],
                       !.tail_[d] = newNode,
                       !.size_[d] = @ + 1]

\* Deque<T>::push_back
push_back(s, d, value) ==
    LET newNode == Len(s.node) + 1
        heap == Append(s.node, node_(value))
    IN  IF empty(s, d)
        THEN [s EXCEPT !.node = heap,
                       !.head_[d] = newNode,
                       !.tail_[d] = newNode,
                       !.size_[d] = @ + 1]
        ELSE [s EXCEPT !.node = [heap EXCEPT ![s.tail_[d]].next = newNode,
                                             ![newNode].prev = s.tail_[d]],
                       !.tail_[d] = newNode,
                       !.size_[d] = @ + 1]

\* Mutant of pop_front: the single-node case clears head_ but forgets tail_.
pop_front_keeptail(s, d) ==
    IF empty(s, d)
    THEN s
    ELSE IF s.head_[d] = s.tail_[d]
         THEN [s EXCEPT !.head_[d] = Null,
                        !.size_[d] = @ - 1]
         ELSE LET h == s.node[s.head_[d]].next
              IN  [s EXCEPT !.node[h].prev = Null,
                            !.head_[d] = h,
                            !.size_[d] = @ - 1]

\* Deque<T>::pop_front
pop_front(s, d) ==
    IF empty(s, d)
    THEN s
    ELSE IF s.head_[d] = s.tail_[d]
         THEN [s EXCEPT !.head_[d] = Null,
                        !.tail_[d] = Null,
                        !.size_[d] = @ - 1]
         ELSE LET h == s.node[s.head_[d]].next
              IN  [s EXCEPT !.node[h].prev = Null,
                            !.head_[d] = h,
                            !.size_[d] = @ - 1]

\* Mutant of pop_back: the node is unlinked but size_ is not decremented.
pop_back_nosize(s, d) ==
    IF empty(s, d)
    THEN s
    ELSE IF s.head_[d] = s.tail_[d]
         THEN [s EXCEPT !.head_[d] = Null,
                        !.tail_[d] = Null]
         ELSE LET t == s.node[s.tail_[d]].prev
              IN  [s EXCEPT !.node[t].next = Null,
                            !.tail_[d] = t]

\* Mutant of pop_back: the empty() check is missing.
pop_back_noguard(s, d) ==
    IF s.head_[d] = s.tail_[d]
    THEN [s EXCEPT !.head_[d] = Null,
                   !.tail_[d] = Null,
                   !.size_[d] = @ - 1]
    ELSE LET t == s.node[s.tail_[d]].prev
         IN  [s EXCEPT !.node[t].next = Null,
                       !.tail_[d] = t,
                       !.size_[d] = @ - 1]

\* Mutant of pop_back: the element is removed at the head end.
pop_back_athead(s, d) == pop_front(s, d)

\* Deque<T>::pop_back
pop_back(s, d) ==
    IF empty(s, d)
    THEN s
    ELSE IF s.head_[d] = s.tail_[d]
         THEN [s EXCEPT !.head_[d] = Null,
                        !.tail_[d] = Null,
                        !.size_[d] = @ - 1]
         ELSE LET t == s.node[s.tail_[d]].prev
              IN  [s EXCEPT !.node[t].next = Null,
                            !.tail_[d] = t,
                            !.size_[d] = @ - 1]

\* Mutant of clear: if instead of while, one element is removed.
clear_once(s, d) ==
    IF empty(s, d) THEN s ELSE pop_front(s, d)

\* Deque<T>::clear: while (!empty()) pop_front();
RECURSIVE clear(_, _)
clear(s, d) ==
    IF empty(s, d) THEN s ELSE clear(pop_front(s, d), d)

(***************************************************************************)
(* The loop shared by the copy constructor and operator=:                  *)
(*   for (curr = other.head_; curr != nullptr; curr = curr->next)          *)
(*       push_back(curr->val);                                             *)
(* curr->next is read after the push_back of that iteration.               *)
(***************************************************************************)
\* Mutant of copy_loop: a shallow copy, the receiver takes over the chain at curr.
copy_loop_shallow(s, d, curr) ==
    IF curr = Null
    THEN s
    ELSE LET chain == Chain(s, curr, Len(s.node) + 1)
         IN  [s EXCEPT !.head_[d] = curr,
                       !.tail_[d] = chain[Len(chain)],
                       !.size_[d] = Len(chain)]

RECURSIVE copy_loop(_, _, _)
copy_loop(s, d, curr) ==
    IF curr = Null
    THEN s
    ELSE LET s1 == push_back(s, d, s.node[curr].val)
         IN  copy_loop(s1, d, s1.node[curr].next)

\* Deque<T>::Deque(const Deque &other)
Deque_copy(s, d, other) ==
    LET s0 == Deque(s, d)
    IN  copy_loop(s0, d, s0.head_[other])

\* Deque<T>::operator=(const Deque &other); other.head_ is read after clear().
operator_assign(s, d, other) ==
    LET s0 == clear(s, d)
    IN  copy_loop(s0, d, s0.head_[other])

\* Deque<T>::Deque(std::initializer_list<T> args)
RECURSIVE init_loop(_, _, _)
init_loop(s, d, args) ==
    IF args = <<>>
    THEN s
    ELSE init_loop(push_back(s, d, Head(args)), d, Tail(args))

Deque_init(s, d, args) == init_loop(Deque(s, d), d, args)

(***************************************************************************)
(* Deque<T>::splice(Deque<T> &that), in three pieces: the two early        *)
(* returns, one iteration of the while loop, and the statement after it.   *)
(***************************************************************************)
\* if (that.empty()) return;  -- nothing changes
splice_that_empty(s, d, that) == s

\* Mutant of splice_adopt: the chain is adopted but size_ is not taken over.
splice_adopt_nosize(s, d, that) ==
    LET s1 == [s  EXCEPT !.head_[d] = s.head_[that]]
        s2 == [s1 EXCEPT !.tail_[d] = s1.tail_[that]]
        s4 == [s2 EXCEPT !.head_[that] = Null]
        s5 == [s4 EXCEPT !.tail_[that] = Null]
    IN  [s5 EXCEPT !.size_[that] = 0]

\* Mutant of splice_adopt: that's size_ is reset but its head_ and tail_ are kept.
splice_adopt_keepthat(s, d, that) ==
    LET s1 == [s  EXCEPT !.head_[d] = s.head_[that]]
        s2 == [s1 EXCEPT !.tail_[d] = s1.tail_[that]]
        s3 == [s2 EXCEPT !.size_[d] = size(s2, that)]
    IN  [s3 EXCEPT !.size_[that] = 0]

\* if (empty()) { adopt that's chain; that becomes empty; return; }
splice_adopt(s, d, that) ==
    LET s1 == [s  EXCEPT !.head_[d] = s.head_[that]]
        s2 == [s1 EXCEPT !.tail_[d] = s1.tail_[that]]
        s3 == [s2 EXCEPT !.size_[d] = size(s2, that)]
        s4 == [s3 EXCEPT !.head_[that] = Null]
        s5 == [s4 EXCEPT !.tail_[that] = Null]
    IN  [s5 EXCEPT !.size_[that] = 0]

\* while (!that.empty() && !empty())
splice_guard(s, d, that) == ~empty(s, that) /\ ~empty(s, d)

\* Mutant of splice_body: the moved element is put at the front of the receiver.
splice_body_front(s, d, that) ==
    pop_front(push_front(s, d, front(s, that)), that)

\* { push_back(that.front()); that.pop_front(); }
splice_body(s, d, that) ==
    pop_front(push_back(s, d, front(s, that)), that)

\* size_ += that.size_;
splice_tail(s, d, that) ==
    [s EXCEPT !.size_[d] = @ + s.size_[that]]

(***************************************************************************)
(* The same calls under an allocator that can refuse.  `new node_(value)`  *)
(* either returns a node or throws std::bad_alloc, and nothing in          *)
(* Deque.hxx catches it: the exception leaves every function on the call   *)
(* stack at the statement that asked for the node.  avail is the number of *)
(* allocations the allocator grants from the entry of the call on.  The    *)
(* outcome of a call is the store where it ended, what is left of avail,   *)
(* and whether it ended by the exception.                                  *)
(***************************************************************************)
Outcome(s, avail, thrown) == [s |-> s, avail |-> avail, thrown |-> thrown]

\* Mutant of push_front_alloc: size_ is counted before the node is asked for.
push_front_alloc_counted(s, d, value, avail) ==
    IF avail = 0
    THEN Outcome([s EXCEPT !.size_[d] = @ + 1], 0, TRUE)
    ELSE Outcome(push_front(s, d, value), avail - 1, FALSE)

\* push_front: the allocation is its first statement.
push_front_alloc(s, d, value, avail) ==
    IF avail = 0
    THEN Outcome(s, 0, TRUE)
    ELSE Outcome(push_front(s, d, value), avail - 1, FALSE)

\* push_back: the allocation is its first statement.
push_back_alloc(s, d, value, avail) ==
    IF avail = 0
    THEN Outcome(s, 0, TRUE)
    ELSE Outcome(push_back(s, d, value), avail - 1, FALSE)

\* The copy loop: a push_back that throws ends it where it is.
RECURSIVE copy_loop_alloc(_, _, _, _)
copy_loop_alloc(s, d, curr, avail) ==
    IF curr = Null
    THEN Outcome(s, avail, FALSE)
    ELSE LET r == push_back_alloc(s, d, s.node[curr].val, avail)
         IN  IF r.thrown
             THEN r
             ELSE copy_loop_alloc(r.s, d, r.s.node[curr].next, r.avail)

\* Deque(const Deque &other): the delegated Deque() has completed when the
\* loop throws, so ~Deque() runs on the way out.
Deque_copy_alloc(s, d, other, avail) ==
    LET s0 == Deque(s, d)
        r == copy_loop_alloc(s0, d, s0.head_[other], avail)
    IN  IF r.thrown THEN Outcome(clear(r.s, d), r.avail, TRUE) ELSE r

\* Mutant of operator_assign_alloc: the clear() before the loop is missing.
operator_assign_alloc_noclear(s, d, other, avail) ==
    copy_loop_alloc(s, d, s.head_[other], avail)

\* operator=: clear(), then the copy loop.
operator_assign_alloc(s, d, other, avail) ==
    LET s0 == clear(s, d)
    IN  copy_loop_alloc(s0, d, s0.head_[other], avail)

\* The while loop of splice: a push_back that throws ends it where it is.
RECURSIVE splice_loop_alloc(_, _, _, _)
splice_loop_alloc(s, d, that, avail) ==
    IF ~splice_guard(s, d, that)
    THEN Outcome(s, avail, FALSE)
    ELSE LET r == push_back_alloc(s, d, front(s, that), avail)
         IN  IF r.thrown
             THEN r
             ELSE splice_loop_alloc(pop_front(r.s, that), d, that, r.avail)

\* splice: the two early returns allocate nothing.
splice_alloc(s, d, that, avail) ==
    IF empty(s, that)
    THEN Outcome(splice_that_empty(s, d, that), avail, FALSE)
    ELSE IF empty(s, d)
         THEN Outcome(splice_adopt(s, d, that), avail, FALSE)
         ELSE LET r == splice_loop_alloc(s, d, that, avail)
              IN  IF r.thrown
                  THEN r
                  ELSE Outcome(splice_tail(r.s, d, that), r.avail, FALSE)

(***************************************************************************)
(* What a client can observe of a deque, read off the representation.      *)
(***************************************************************************)
\* The nodes met following prev from n, at most fuel of them.
RECURSIVE ChainBack(_, _, _)
ChainBack(s, n, fuel) ==
    IF n = Null \/ fuel = 0
    THEN <<>>
    ELSE <<n>> \o ChainBack(s, s.node[n].prev, fuel - 1)

\* The node reached from n by k steps along next (Null once the chain ends).
RECURSIVE NextK(_, _, _)
NextK(s, n, k) ==
    IF n = Null \/ k = 0 THEN n ELSE NextK(s, s.node[n].next, k - 1)

\* The node reached from n by k steps along prev.
RECURSIVE PrevK(_, _, _)
PrevK(s, n, k) ==
    IF n = Null \/ k = 0 THEN n ELSE PrevK(s, s.node[n].prev, k - 1)

Range(f) == {f[i] : i \in DOMAIN f}

\* Nodes of d front to back; the fuel Len(node) + 1 shows a cycle as a repeat.
Nodes(d) == Chain(Store, head_[d], Len(node) + 1)

\* Values of d front to back.
Elems(d) == [i \in 1..Len(Nodes(d)) |-> node[Nodes(d)[i]].val]

Reach(d) == Range(Nodes(d))

Snap(d) ==
    [seq |-> Elems(d), nodes |-> Nodes(d),
     head |-> head_[d], tail |-> tail_[d], size |-> size_[d]]

NoSnap ==
    [seq |-> <<>>, nodes |-> <<>>, head |-> Null, tail |-> Null, size |-> 0]

\* Sequences over S of length at most n.
RECURSIVE SeqsUpTo(_, _)
SeqsUpTo(S, n) ==
    IF n = 0
    THEN {<<>>}
    ELSE LET shorter == SeqsUpTo(S, n - 1)
         IN  shorter \cup {Append(q, x) : q \in shorter, x \in S}

(***************************************************************************)
(* The state machine.  A client holds NumDeques Deque objects and calls    *)
(* the public members one at a time.  The actions are the calls; the       *)
(* bounds on the heap are in Next.                                         *)
(***************************************************************************)
\* The record of a splice call: its operands, their state at entry, and the
\* loop iterations made so far.
SpliceRecord(d, t) ==
    [op |-> "splice", self |-> d, that |-> t,
     preSelf |-> Snap(d), preThat |-> Snap(t),
     alloc |-> Len(node), iters |-> 0]

\* Any other call ends the record of the splice before it.
NoCall ==
    [op |-> "none", self |-> Null, that |-> Null,
     preSelf |-> NoSnap, preThat |-> NoSnap,
     alloc |-> 0, iters |-> 0]

EmptyStore ==
    [node |-> <<>>,
     head_ |-> [d \in Deques |-> Null],
     tail_ |-> [d \in Deques |-> Null],
     size_ |-> [d \in Deques |-> 0]]

Commit(s) ==
    /\ node' = s.node
    /\ head_' = s.head_
    /\ tail_' = s.tail_
    /\ size_' = s.size_

\* No Deque object has been constructed yet.
Init ==
    /\ node = EmptyStore.node
    /\ head_ = EmptyStore.head_
    /\ tail_ = EmptyStore.tail_
    /\ size_ = EmptyStore.size_
    /\ live = [d \in Deques |-> FALSE]
    /\ pc = "idle"
    /\ copyOf = [d \in Deques |-> Null]
    /\ last = NoCall

\* Deque<T> d;
Construct(d) ==
    /\ pc = "idle" /\ ~live[d]
    /\ Commit(Deque(Store, d))
    /\ live' = [live EXCEPT ![d] = TRUE]
    /\ copyOf' = [copyOf EXCEPT ![d] = Null]
    /\ last' = NoCall
    /\ UNCHANGED pc

\* Deque<T> d{args...};
ConstructInit(d, args) ==
    /\ pc = "idle" /\ ~live[d]
    /\ args # <<>>
    /\ Commit(Deque_init(Store, d, args))
    /\ live' = [live EXCEPT ![d] = TRUE]
    /\ copyOf' = [copyOf EXCEPT ![d] = Null]
    /\ last' = NoCall
    /\ UNCHANGED pc

\* Deque<T> d(other);
ConstructCopy(d, other) ==
    /\ pc = "idle" /\ ~live[d] /\ live[other]
    /\ Commit(Deque_copy(Store, d, other))
    /\ live' = [live EXCEPT ![d] = TRUE]
    /\ copyOf' = [copyOf EXCEPT ![d] = other]
    /\ last' = NoCall
    /\ UNCHANGED pc

\* d = other;  (other may be d itself)
Assign(d, other) ==
    /\ pc = "idle" /\ live[d] /\ live[other]
    /\ Commit(operator_assign(Store, d, other))
    /\ copyOf' = IF d = other THEN copyOf ELSE [copyOf EXCEPT ![d] = other]
    /\ last' = NoCall
    /\ UNCHANGED <<live, pc>>

\* d.push_front(v);
PushFront(d, v) ==
    /\ pc = "idle" /\ live[d]
    /\ Commit(push_front(Store, d, v))
    /\ last' = NoCall
    /\ UNCHANGED <<live, pc, copyOf>>

\* d.push_back(v);
PushBack(d, v) ==
    /\ pc = "idle" /\ live[d]
    /\ Commit(push_back(Store, d, v))
    /\ last' = NoCall
    /\ UNCHANGED <<live, pc, copyOf>>

\* d.pop_front();
PopFront(d) ==
    /\ pc = "idle" /\ live[d]
    /\ Commit(pop_front(Store, d))
    /\ last' = NoCall
    /\ UNCHANGED <<live, pc, copyOf>>

\* d.pop_back();
PopBack(d) ==
    /\ pc = "idle" /\ live[d]
    /\ Commit(pop_back(Store, d))
    /\ last' = NoCall
    /\ UNCHANGED <<live, pc, copyOf>>

\* d.clear();
Clear(d) ==
    /\ pc = "idle" /\ live[d]
    /\ Commit(clear(Store, d))
    /\ last' = NoCall
    /\ UNCHANGED <<live, pc, copyOf>>

\* d.front() = v;  (front() on an empty deque is outside the contract)
WriteFront(d, v) ==
    /\ pc = "idle" /\ live[d] /\ ~empty(Store, d)
    /\ node' = [node EXCEPT ![head_[d]].val = v]
    /\ last' = NoCall
    /\ UNCHANGED <<head_, tail_, size_, live, pc, copyOf>>

\* d.back() = v;
WriteBack(d, v) ==
    /\ pc = "idle" /\ live[d] /\ ~empty(Store, d)
    /\ node' = [node EXCEPT ![tail_[d]].val = v]
    /\ last' = NoCall
    /\ UNCHANGED <<head_, tail_, size_, live, pc, copyOf>>

\* d.splice(that): entry, up to the first evaluation of the loop condition.
SpliceCall(d, that) ==
    /\ pc = "idle" /\ live[d] /\ live[that]
    /\ last' = SpliceRecord(d, that)
    /\ IF empty(Store, that)
       THEN /\ Commit(splice_that_empty(Store, d, that))
            /\ pc' = "idle"
       ELSE IF empty(Store, d)
            THEN /\ Commit(splice_adopt(Store, d, that))
                 /\ pc' = "idle"
            ELSE /\ Commit(Store)
                 /\ pc' = "splice"
    /\ UNCHANGED <<live, copyOf>>

\* One iteration of the loop of the splice call in progress.
SpliceLoop ==
    /\ pc = "splice"
    /\ splice_guard(Store, last.self, last.that)
    /\ Commit(splice_body(Store, last.self, last.that))
    /\ last' = [last EXCEPT !.iters = @ + 1]
    /\ UNCHANGED <<live, pc, copyOf>>

\* The loop condition is false: the statement after the loop, then return.
SpliceReturn ==
    /\ pc = "splice"
    /\ ~splice_guard(Store, last.self, last.that)
    /\ Commit(splice_tail(Store, last.self, last.that))
    /\ pc' = "idle"
    /\ UNCHANGED <<live, copyOf, last>>

\* d goes out of scope: ~Deque() is clear().
Destroy(d) ==
    /\ pc = "idle" /\ live[d]
    /\ Commit(clear(Store, d))
    /\ live' = [live EXCEPT ![d] = FALSE]
    /\ copyOf' = [b \in Deques |->
                    IF b = d \/ copyOf[b] = d THEN Null ELSE copyOf[b]]
    /\ last' = NoCall
    /\ UNCHANGED pc

(***************************************************************************)
(* Spec: every interleaving of calls on the deques, starting with no       *)
(* object constructed.  A call that allocates is offered while the heap    *)
(* has room for the nodes it creates.                                      *)
(***************************************************************************)
Room(k) == Len(node) + k <= MaxNodes

Next ==
    \/ \E d \in Deques : Construct(d)
    \/ \E d \in Deques : \E args \in SeqsUpTo(Values, MaxLen) :
          Room(Len(args)) /\ ConstructInit(d, args)
    \/ \E d \in Deques : \E other \in Deques :
          Room(size_[other]) /\ ConstructCopy(d, other)
    \/ \E d \in Deques : \E other \in Deques :
          Room(size_[other]) /\ Assign(d, other)
    \/ \E d \in Deques : \E v \in Values : Room(1) /\ PushFront(d, v)
    \/ \E d \in Deques : \E v \in Values : Room(1) /\ PushBack(d, v)
    \/ \E d \in Deques : PopFront(d)
    \/ \E d \in Deques : PopBack(d)
    \/ \E d \in Deques : Clear(d)
    \/ \E d \in Deques : \E v \in Values : WriteFront(d, v)
    \/ \E d \in Deques : \E v \in Values : WriteBack(d, v)
    \/ \E d \in Deques : \E that \in Deques :
          Room(size_[that]) /\ SpliceCall(d, that)
    \/ Room(1) /\ SpliceLoop
    \/ SpliceReturn
    \/ \E d \in Deques : Destroy(d)

Spec == Init /\ [][Next]_vars

(***************************************************************************)
(* SpliceSpec: the client constructs two deques, objects 1 and 2, from     *)
(* initializer lists of at most MaxLen elements and then calls splice on   *)
(* them, in every pairing and any number of times.  The loop of a call is  *)
(* followed for one iteration more than its argument had elements: between *)
(* distinct deques it has ended by then.                                   *)
(***************************************************************************)
Pair == {1, 2}

InitSplice ==
    \E A, B \in SeqsUpTo(Values, MaxLen) :
        LET s == Deque_init(Deque_init(EmptyStore, 1, A), 2, B)
        IN  /\ node = s.node
            /\ head_ = s.head_
            /\ tail_ = s.tail_
            /\ size_ = s.size_
            /\ live = [d \in Deques |-> d \in Pair]
            /\ pc = "idle"
            /\ copyOf = [d \in Deques |-> Null]
            /\ last = NoCall

NextSplice ==
    \/ \E d \in Pair : \E that \in Pair : SpliceCall(d, that)
    \/ last.iters <= last.preThat.size /\ SpliceLoop
    \/ SpliceReturn

SpliceSpec == InitSplice /\ [][NextSplice]_vars

(***************************************************************************)
(* TraceSpec: one deque, object 1, is default-constructed and the client   *)
(* calls push_front, push_back, pop_front, pop_back and clear on it in any *)
(* order while the heap has room.  `last` holds the trace: the call just   *)
(* made, whether the call before it was clear, whether the deque was empty *)
(* at the call, and seq, the abstract sequence the calls make of the empty *)
(* sequence.  PushPopSpec is the same without clear, and there the trace   *)
(* also counts the pushes and the pops made on a non-empty deque.          *)
(***************************************************************************)
Solo == {1}

Front(q) == q[1]

Back(q) == q[Len(q)]

ButLast(q) == SubSeq(q, 1, Len(q) - 1)

Pushes == {"push_front", "push_back"}

Pops == {"pop_front", "pop_back"}

\* The abstract sequence after the call op(v) on the abstract sequence q.
Abstract(op, v, q) ==
    CASE op = "push_front" -> <<v>> \o q
      [] op = "push_back"  -> Append(q, v)
      [] op = "pop_front"  -> IF q = <<>> THEN q ELSE Tail(q)
      [] op = "pop_back"   -> IF q = <<>> THEN q ELSE ButLast(q)
      [] op = "clear"      -> <<>>

TraceRecord(op, v) ==
    [op |-> op, afterClear |-> last.op = "clear",
     wasEmpty |-> last.seq = <<>>,
     counting |-> last.counting,
     pushes |-> IF last.counting /\ op \in Pushes
                THEN last.pushes + 1 ELSE last.pushes,
     pops |-> IF last.counting /\ op \in Pops /\ last.seq # <<>>
              THEN last.pops + 1 ELSE last.pops,
     seq |-> Abstract(op, v, last.seq)]

NoTrace(counting) ==
    [op |-> "Deque", afterClear |-> FALSE, wasEmpty |-> TRUE,
     counting |-> counting, pushes |-> 0, pops |-> 0, seq |-> <<>>]

InitSolo ==
    LET s == Deque(EmptyStore, 1)
    IN  /\ node = s.node
        /\ head_ = s.head_
        /\ tail_ = s.tail_
        /\ size_ = s.size_
        /\ live = [d \in Deques |-> d \in Solo]
        /\ pc = "idle"
        /\ copyOf = [d \in Deques |-> Null]

InitTrace == InitSolo /\ last = NoTrace(FALSE)

InitPushPop == InitSolo /\ last = NoTrace(TRUE)

TrPushFront(d, v) ==
    /\ Commit(push_front(Store, d, v))
    /\ last' = TraceRecord("push_front", v)
    /\ UNCHANGED <<live, pc, copyOf>>

TrPushBack(d, v) ==
    /\ Commit(push_back(Store, d, v))
    /\ last' = TraceRecord("push_back", v)
    /\ UNCHANGED <<live, pc, copyOf>>

TrPopFront(d) ==
    /\ Commit(pop_front(Store, d))
    /\ last' = TraceRecord("pop_front", Null)
    /\ UNCHANGED <<live, pc, copyOf>>

TrPopBack(d) ==
    /\ Commit(pop_back(Store, d))
    /\ last' = TraceRecord("pop_back", Null)
    /\ UNCHANGED <<live, pc, copyOf>>

TrClear(d) ==
    /\ Commit(clear(Store, d))
    /\ last' = TraceRecord("clear", Null)
    /\ UNCHANGED <<live, pc, copyOf>>

NextTrace ==
    \/ \E d \in Solo : \E v \in Values : Room(1) /\ TrPushFront(d, v)
    \/ \E d \in Solo : \E v \in Values : Room(1) /\ TrPushBack(d, v)
    \/ \E d \in Solo : TrPopFront(d)
    \/ \E d \in Solo : TrPopBack(d)
    \/ \E d \in Solo : TrClear(d)

TraceSpec == InitTrace /\ [][NextTrace]_vars

NextPushPop ==
    \/ \E d \in Solo : \E v \in Values : Room(1) /\ TrPushFront(d, v)
    \/ \E d \in Solo : \E v \in Values : Room(1) /\ TrPushBack(d, v)
    \/ \E d \in Solo : TrPopFront(d)
    \/ \E d \in Solo : TrPopBack(d)

PushPopSpec == InitPushPop /\ [][NextPushPop]_vars

(***************************************************************************)
(* RoundSpec: the round trips.  The client picks the values v1..vn and     *)
(* default-constructs two deques.  Into object 1 it pushes them with       *)
(* push_back and then, n times, reads front() and calls pop_front(); into  *)
(* object 2 it pushes them with push_front and then, n times, reads back() *)
(* and calls pop_back().  `last` holds the values, how many of them each   *)
(* deque has been given, and the values read from each.                    *)
(***************************************************************************)
ViaBack == Solo

ViaFront == Pair \ Solo

RoundRecord(input) ==
    [input |-> input,
     pushed |-> [d \in Pair |-> 0],
     out |-> [d \in Pair |-> <<>>]]

InitRound ==
    \E input \in SeqsUpTo(Values, MaxLen) :
        LET s == Deque(Deque(EmptyStore, 1), 2)
        IN  /\ node = s.node
            /\ head_ = s.head_
            /\ tail_ = s.tail_
            /\ size_ = s.size_
            /\ live = [d \in Deques |-> d \in Pair]
            /\ pc = "idle"
            /\ copyOf = [d \in Deques |-> Null]
            /\ last = RoundRecord(input)

\* All of v1..vn have been pushed into d.
Pushed(d) == last.pushed[d] = Len(last.input)

\* The round trip through d is over: n values pushed, n rounds of read and pop.
RoundDone(d) == Pushed(d) /\ Len(last.out[d]) = Len(last.input)

\* d.push_back(v_i);
RtPushBack(d) ==
    /\ ~Pushed(d)
    /\ Commit(push_back(Store, d, last.input[last.pushed[d] + 1]))
    /\ last' = [last EXCEPT !.pushed[d] = @ + 1]
    /\ UNCHANGED <<live, pc, copyOf>>

\* d.push_front(v_i);
RtPushFront(d) ==
    /\ ~Pushed(d)
    /\ Commit(push_front(Store, d, last.input[last.pushed[d] + 1]))
    /\ last' = [last EXCEPT !.pushed[d] = @ + 1]
    /\ UNCHANGED <<live, pc, copyOf>>

\* x = d.front(); d.pop_front();
RtPopFront(d) ==
    /\ Pushed(d) /\ ~RoundDone(d)
    /\ Commit(pop_front(Store, d))
    /\ last' = [last EXCEPT !.out[d] = Append(@, front(Store, d))]
    /\ UNCHANGED <<live, pc, copyOf>>

\* x = d.back(); d.pop_back();
RtPopBack(d) ==
    /\ Pushed(d) /\ ~RoundDone(d)
    /\ Commit(pop_back(Store, d))
    /\ last' = [last EXCEPT !.out[d] = Append(@, back(Store, d))]
    /\ UNCHANGED <<live, pc, copyOf>>

NextRound ==
    \/ \E d \in ViaBack : RtPushBack(d)
    \/ \E d \in ViaBack : RtPopFront(d)
    \/ \E d \in ViaFront : RtPushFront(d)
    \/ \E d \in ViaFront : RtPopBack(d)

RoundSpec == InitRound /\ [][NextRound]_vars

(***************************************************************************)
(* AllocSpec: one call under an allocator that can refuse.  Object 1 is    *)
(* constructed from an initializer list; object 2 is constructed from one  *)
(* too, or is not constructed.  The client then makes one call: a push, a  *)
(* copy construction of object 2 from object 1, or an assignment or a      *)
(* splice between the two objects, while the allocator grants some number  *)
(* of allocations.  `last` holds the call, the state of its operands and   *)
(* of the heap at its entry, the allocations granted, and whether the call *)
(* ended by std::bad_alloc.                                                *)
(***************************************************************************)
Grants == 0..MaxLen

CallRecord(op, d, t, avail, r) ==
    [op |-> op, self |-> d, that |-> t,
     preSelf |-> Snap(d),
     preThat |-> IF t = Null THEN NoSnap ELSE Snap(t),
     preNode |-> node,
     avail |-> avail, thrown |-> r.thrown]

InitAlloc ==
    \E A, B \in SeqsUpTo(Values, MaxLen) : \E built \in BOOLEAN :
        LET s == IF built
                 THEN Deque_init(Deque_init(EmptyStore, 1, A), 2, B)
                 ELSE Deque_init(EmptyStore, 1, A)
        IN  /\ built \/ B = <<>>
            /\ node = s.node
            /\ head_ = s.head_
            /\ tail_ = s.tail_
            /\ size_ = s.size_
            /\ live = [d \in Deques |-> d \in Solo \/ (d \in Pair /\ built)]
            /\ pc = "idle"
            /\ copyOf = [d \in Deques |-> Null]
            /\ last = NoCall

\* d.push_front(v);
AlPushFront(d, v, avail) ==
    LET r == push_front_alloc(Store, d, v, avail)
    IN  /\ last.op = "none" /\ live[d]
        /\ Commit(r.s)
        /\ last' = CallRecord("push_front", d, Null, avail, r)
        /\ UNCHANGED <<live, pc, copyOf>>

\* d.push_back(v);
AlPushBack(d, v, avail) ==
    LET r == push_back_alloc(Store, d, v, avail)
    IN  /\ last.op = "none" /\ live[d]
        /\ Commit(r.s)
        /\ last' = CallRecord("push_back", d, Null, avail, r)
        /\ UNCHANGED <<live, pc, copyOf>>

\* Deque<T> d(other);  d exists only if the constructor returns.
AlCopy(d, other, avail) ==
    LET r == Deque_copy_alloc(Store, d, other, avail)
    IN  /\ last.op = "none" /\ ~live[d] /\ live[other]
        /\ Commit(r.s)
        /\ live' = [live EXCEPT ![d] = ~r.thrown]
        /\ last' = CallRecord("Deque", d, other, avail, r)
        /\ UNCHANGED <<pc, copyOf>>

\* d = other;  between two distinct objects
AlAssign(d, other, avail) ==
    LET r == operator_assign_alloc(Store, d, other, avail)
    IN  /\ last.op = "none" /\ live[d] /\ live[other] /\ d # other
        /\ Commit(r.s)
        /\ last' = CallRecord("operator=", d, other, avail, r)
        /\ UNCHANGED <<live, pc, copyOf>>

\* d.splice(that);  between two distinct objects
AlSplice(d, that, avail) ==
    LET r == splice_alloc(Store, d, that, avail)
    IN  /\ last.op = "none" /\ live[d] /\ live[that] /\ d # that
        /\ Commit(r.s)
        /\ last' = CallRecord("splice", d, that, avail, r)
        /\ UNCHANGED <<live, pc, copyOf>>

NextAlloc ==
    \/ \E d \in Pair : \E v \in Values : \E avail \in Grants :
          AlPushFront(d, v, avail)
    \/ \E d \in Pair : \E v \in Values : \E avail \in Grants :
          AlPushBack(d, v, avail)
    \/ \E d \in Pair : \E other \in Pair : \E avail \in Grants :
          AlCopy(d, other, avail)
    \/ \E d \in Pair : \E other \in Pair : \E avail \in Grants :
          AlAssign(d, other, avail)
    \/ \E d \in Pair : \E that \in Pair : \E avail \in Grants :
          AlSplice(d, that, avail)

AllocSpec == InitAlloc /\ [][NextAlloc]_vars

(***************************************************************************)
(* MirrorSpec: the client default-constructs two deques and makes each     *)
(* push_front, push_back, pop_front or pop_back call on object 1 together  *)
(* with the mirrored call on object 2: the call at the other end, with the *)
(* same value.  Each deque is pushed to at most MaxLen times.  `last`      *)
(* holds the call just made on object 1 and the calls made on it so far.   *)
(***************************************************************************)
Reverse(q) == [i \in 1..Len(q) |-> q[Len(q) + 1 - i]]

MirrorRecord(op) == [op |-> op, seen |-> last.seen \cup {op}]

InitMirror ==
    LET s == Deque(Deque(EmptyStore, 1), 2)
    IN  /\ node = s.node
        /\ head_ = s.head_
        /\ tail_ = s.tail_
        /\ size_ = s.size_
        /\ live = [d \in Deques |-> d \in Pair]
        /\ pc = "idle"
        /\ copyOf = [d \in Deques |-> Null]
        /\ last = [op |-> "Deque", seen |-> {}]

\* Room for one more node in each of the two deques.
PairRoom == Len(node) + 2 <= 2 * MaxLen

\* d.push_front(v); m.push_back(v);
MrPushFront(d, m, v) ==
    /\ Commit(push_back(push_front(Store, d, v), m, v))
    /\ last' = MirrorRecord("push_front")
    /\ UNCHANGED <<live, pc, copyOf>>

\* d.push_back(v); m.push_front(v);
MrPushBack(d, m, v) ==
    /\ Commit(push_front(push_back(Store, d, v), m, v))
    /\ last' = MirrorRecord("push_back")
    /\ UNCHANGED <<live, pc, copyOf>>

\* d.pop_front(); m.pop_back();
MrPopFront(d, m) ==
    /\ Commit(pop_back(pop_front(Store, d), m))
    /\ last' = MirrorRecord("pop_front")
    /\ UNCHANGED <<live, pc, copyOf>>

\* d.pop_back(); m.pop_front();
MrPopBack(d, m) ==
    /\ Commit(pop_front(pop_back(Store, d), m))
    /\ last' = MirrorRecord("pop_back")
    /\ UNCHANGED <<live, pc, copyOf>>

NextMirror ==
    \/ \E d \in Solo : \E m \in Pair \ Solo : \E v \in Values :
          PairRoom /\ MrPushFront(d, m, v)
    \/ \E d \in Solo : \E m \in Pair \ Solo : \E v \in Values :
          PairRoom /\ MrPushBack(d, m, v)
    \/ \E d \in Solo : \E m \in Pair \ Solo : MrPopFront(d, m)
    \/ \E d \in Solo : \E m \in Pair \ Solo : MrPopBack(d, m)

MirrorSpec == InitMirror /\ [][NextMirror]_vars

(***************************************************************************)
(* Properties.                                                             *)
(***************************************************************************)
\* A splice call between two distinct deques has returned, and no other call
\* has been made since.
SpliceDone == pc = "idle" /\ last.op = "splice" /\ last.self # last.that

Distinct(s) == Cardinality(Range(s)) = Len(s)

\* C1: after a.splice(b) on distinct deques holding A and B, a holds A followed
\* by B in B's order, a.size() = |A| + |B|, b.empty() holds and b.size() = 0.
C1_SpliceAppends ==
    SpliceDone =>
        LET a == last.self
            b == last.that
            A == last.preSelf.seq
            B == last.preThat.seq
        IN  /\ Elems(a) = A \o B
            /\ size(Store, a) = Len(A) + Len(B)
            /\ empty(Store, b)
            /\ size(Store, b) = 0

\* C1 witness: a splice of a two-element deque onto a non-empty one has returned.
C1_Witness ==
    /\ SpliceDone
    /\ Len(last.preSelf.seq) >= 1
    /\ Len(last.preThat.seq) >= 2
    /\ last.preThat.seq[1] # last.preThat.seq[2]

\* C2: a.splice(b) on distinct deques creates no node, and afterwards a's nodes
\* are a's nodes at entry followed by b's nodes at entry, the same objects.
C2_SpliceTransfersNodes ==
    SpliceDone =>
        /\ Len(node) = last.alloc
        /\ Nodes(last.self) = last.preSelf.nodes \o last.preThat.nodes

\* C3: on distinct deques, splicing an empty deque leaves the receiver's
\* sequence, size, head and tail as they were and the argument empty; splicing a
\* non-empty deque into an empty one gives the receiver the argument's sequence
\* and size and leaves the argument with size 0 and no head or tail.
C3_SpliceEmptySide ==
    SpliceDone =>
        LET a == last.self
            b == last.that
        IN  /\ last.preThat.size = 0 =>
                /\ Elems(a) = last.preSelf.seq
                /\ size_[a] = last.preSelf.size
                /\ head_[a] = last.preSelf.head
                /\ tail_[a] = last.preSelf.tail
                /\ size_[b] = 0 /\ Elems(b) = <<>>
            /\ (last.preThat.size > 0 /\ last.preSelf.size = 0) =>
                /\ Elems(a) = last.preThat.seq
                /\ size_[a] = last.preThat.size
                /\ size_[b] = 0
                /\ head_[b] = Null
                /\ tail_[b] = Null

\* C3 witness: a two-element deque has been spliced into an empty one.
C3_Witness ==
    /\ SpliceDone
    /\ last.preSelf.size = 0
    /\ last.preThat.size = 2
    /\ size_[last.self] = 2

\* C4: the copy-assignment a = a leaves a's sequence and size as they were.
C4_SelfAssignNoOp ==
    [][\A d \in Deques :
          Assign(d, d) => (Elems(d)' = Elems(d) /\ size_'[d] = size_[d])]_vars

\* C5: between calls, every node that exists (none is ever released) is
\* reachable from exactly one live deque.
C5_NoLeak ==
    pc = "idle" =>
        \A n \in 1..Len(node) :
            Cardinality({d \in Deques : live[d] /\ n \in Reach(d)}) = 1

\* C6: a splice call returns; its loop moves one element of the argument per
\* iteration, so it has run at most as many iterations as the argument had
\* elements at entry.
C6_SpliceTerminates ==
    last.op = "splice" => last.iters <= last.preThat.size

\* C7: between calls, for every deque, size_ = 0 iff head_ and tail_ are both
\* nullptr, size_ > 0 implies both are set, and empty() is true exactly when
\* both are nullptr.
C7_EmptyIffNoBoundary ==
    pc = "idle" =>
        \A d \in Deques : live[d] =>
            /\ size_[d] = 0 <=> (head_[d] = Null /\ tail_[d] = Null)
            /\ size_[d] > 0 => (head_[d] # Null /\ tail_[d] # Null)
            /\ empty(Store, d) <=> (head_[d] = Null /\ tail_[d] = Null)

\* C7 witness: a splice has emptied its argument by pop_front, one element per
\* iteration, and left its receiver non-empty.
C7_Witness ==
    /\ SpliceDone
    /\ last.preThat.size > 0
    /\ last.iters = last.preThat.size
    /\ size_[last.that] = 0 /\ head_[last.that] = Null /\ tail_[last.that] = Null
    /\ size_[last.self] > 0 /\ head_[last.self] # Null

\* The chain of a non-empty deque d is acyclic and doubly linked.
WellFormed(d) ==
    /\ NextK(Store, head_[d], size_[d] - 1) = tail_[d]
    /\ PrevK(Store, tail_[d], size_[d] - 1) = head_[d]
    /\ head_[d] # Null /\ tail_[d] # Null
    /\ node[head_[d]].prev = Null
    /\ node[tail_[d]].next = Null
    /\ \A n \in Reach(d) :
          node[n].next # Null => node[node[n].next].prev = n
    /\ Distinct(Nodes(d))
    /\ ChainBack(Store, tail_[d], Len(node) + 1) =
          [i \in 1..Len(Nodes(d)) |-> Nodes(d)[Len(Nodes(d)) + 1 - i]]
    /\ size_[d] = Cardinality(Reach(d))

\* C8: between calls, the chain of every non-empty deque is acyclic and
\* bidirectionally consistent: size_ - 1 steps along next lead from head_ to
\* tail_, size_ - 1 steps along prev lead from tail_ to head_, head_->prev and
\* tail_->next are nullptr, n->next->prev = n for every linked node n with a
\* successor, and size_ is the number of nodes reachable from head_.
C8_ChainWellFormed ==
    pc = "idle" =>
        \A d \in Deques : (live[d] /\ size_[d] > 0) => WellFormed(d)

\* C8 witness: a splice that ran its loop has returned and left a deque of at
\* least three nodes.
C8_Witness ==
    /\ SpliceDone
    /\ last.iters >= 1
    /\ size_[last.self] >= 3

\* C9: no node is reachable from the heads of two distinct deques, in any state.
C9_NoSharedNode ==
    \A d, e \in Deques : d # e => Reach(d) \cap Reach(e) = {}

\* C9 witness: a deque and a copy of it are both non-empty.
C9_Witness ==
    \E d, e \in Deques :
        /\ d # e /\ live[d] /\ live[e]
        /\ copyOf[e] = d
        /\ size_[d] > 0 /\ size_[e] > 0

\* The step is (part of) a call with b as receiver or argument, or ends or
\* starts b's lifetime.
Involves(b) ==
    \/ \E v \in Values :
          PushFront(b, v) \/ PushBack(b, v) \/ WriteFront(b, v) \/ WriteBack(b, v)
    \/ PopFront(b) \/ PopBack(b) \/ Clear(b) \/ Destroy(b)
    \/ \E o \in Deques : Assign(b, o) \/ SpliceCall(b, o) \/ SpliceCall(o, b)
    \/ (pc = "splice" /\ b \in {last.self, last.that})

SameContents(b) == Elems(b)' = Elems(b) /\ size_'[b] = size_[b]

C11_SizeIsPushesMinusPops ==
    \A d \in Solo : size(Store, d) = last.pushes - last.pops

\* C11 witness: every element pushed has been popped again and one more pop was
\* made on the empty deque.
C11_Witness ==
    /\ last.counting
    /\ last.op = "pop_back" /\ last.wasEmpty
    /\ last.pushes >= 2 /\ last.pops = last.pushes

\* C12: on an empty deque, push_back of v1..vn and then n rounds of front(),
\* pop_front() read v1..vn in that order and leave the deque empty; so do
\* push_front of v1..vn and then n rounds of back(), pop_back().
C12_RoundTrip ==
    \A d \in Pair :
        RoundDone(d) => /\ last.out[d] = last.input
                        /\ empty(Store, d)
                        /\ Elems(d) = <<>>

\* C12 witness: both round trips are over for MaxLen values, the first of
\* which differs from the last.
C12_Witness ==
    /\ Len(last.input) = MaxLen
    /\ Front(last.input) # Back(last.input)
    /\ \A d \in Pair : RoundDone(d) /\ last.out[d] = last.input

SelfAsBefore ==
    /\ Elems(last.self) = last.preSelf.seq
    /\ size_[last.self] = last.preSelf.size

\* The call recorded in last left its argument with the sequence and size it
\* had at entry.
ThatAsBefore ==
    /\ Elems(last.that) = last.preThat.seq
    /\ size_[last.that] = last.preThat.size

\* C14: a push_front or push_back whose allocation is refused ends by the
\* exception and leaves head_, tail_, size_ and the whole heap, links
\* included, as they were: no node was added or linked.
C14_PushFailureLeavesState ==
    (last.op \in Pushes /\ last.avail = 0) =>
        /\ last.thrown
        /\ node = last.preNode
        /\ Snap(last.self) = last.preSelf

\* C14 witness: a push on a deque of at least two elements was refused its
\* node.
C14_Witness ==
    /\ last.op \in Pushes /\ last.thrown
    /\ last.preSelf.size >= 2
    /\ Len(node) = Len(last.preNode)

\* C15: an operator= or a splice that ends by a refused allocation leaves the
\* destination, and for splice the source too, with the sequence and size it
\* had before the call.
C15_NoPartialFailure ==
    (last.op \in {"operator=", "splice"} /\ last.thrown) =>
        /\ SelfAsBefore
        /\ last.op = "splice" => ThatAsBefore

\* C16: after clear() the deque is empty, with size 0 and no head or tail; a
\* push_back(x) made right after clear() gives a deque of size 1 whose front()
\* and back() are x.
C16_ClearThenPush ==
    \A d \in Solo :
        /\ last.op = "clear" =>
              /\ empty(Store, d) /\ size(Store, d) = 0
              /\ head_[d] = Null /\ tail_[d] = Null
        /\ (last.op = "push_back" /\ last.afterClear) =>
              /\ front(Store, d) = Back(last.seq)
              /\ back(Store, d) = Back(last.seq)
              /\ size(Store, d) = 1

\* C16 witness: push_back was called right after clear(), on a deque that had
\* been pushed to at least twice before.
C16_Witness ==
    /\ last.op = "push_back" /\ last.afterClear
    /\ Len(node) >= 3
    /\ \A d \in Solo : size_[d] = 1 /\ head_[d] = Len(node)

\* C17: the values along next from head_ are the abstract sequence the calls
\* made so far produce; size() is its length and, when it is not empty, front()
\* is its first and back() its last element.
C17_RefinesSequence ==
    \A d \in Solo :
        /\ Elems(d) = last.seq
        /\ size(Store, d) = Len(last.seq)
        /\ last.seq # <<>> =>
              /\ front(Store, d) = Front(last.seq)
              /\ back(Store, d) = Back(last.seq)

\* C17 witness: a pop_back has left three elements that are not all equal.
C17_Witness ==
    /\ last.op = "pop_back" /\ ~last.wasEmpty
    /\ Len(last.seq) = 3
    /\ Front(last.seq) # Back(last.seq)

\* C18: a copy construction b(a), or an assignment b = a between distinct
\* deques, that returns gives b the sequence and size of a, keeps none of the
\* nodes b had, and leaves a's sequence, size, head_ and tail_ as they were.
C18_CopyGivesSource ==
    (last.op \in {"Deque", "operator="} /\ ~last.thrown) =>
        /\ Elems(last.self) = last.preThat.seq
        /\ size_[last.self] = last.preThat.size
        /\ Reach(last.self) \cap Range(last.preSelf.nodes) = {}
        /\ Snap(last.that) = last.preThat

\* C18 witness: b = a returned where b held elements and a held at least two,
\* other than b's.
C18_Witness ==
    /\ last.op = "operator=" /\ ~last.thrown
    /\ last.preSelf.size >= 1
    /\ last.preThat.size >= 2
    /\ last.preSelf.seq # last.preThat.seq
    /\ Elems(last.self) = last.preThat.seq

\* C19: after any calls of push_front, push_back, pop_front and pop_back on an
\* empty deque and the mirrored calls on another, the second holds the first's
\* sequence reversed and both have the same size.
C19_MirrorReverses ==
    \A d \in Solo : \A m \in Pair \ Solo :
        /\ Elems(m) = Reverse(Elems(d))
        /\ size(Store, m) = size(Store, d)

\* C19 witness: all four calls have been made and the deques hold at least two
\* elements, the first of which differs from the last.
C19_Witness ==
    /\ last.seen = Pushes \cup Pops
    /\ \A d \in Solo : \A m \in Pair \ Solo :
          /\ size_[d] >= 2
          /\ Front(Elems(d)) # Back(Elems(d))
          /\ Elems(m) = Reverse(Elems(d))

====
